---- MODULE Spec2Model ----
(***************************************************************************)
(* A model of parallel_for (src/src/parallel.c): the dispatcher that       *)
(* validates the call, resolves the thread count and the core list,        *)
(* spawns and joins the workers, and the workers that claim chunks of      *)
(* [begin, end) from a shared cursor with an atomic fetch-and-add.         *)
(* `long` values are LongBits wide and wrap, as the lock xaddq / add       *)
(* instructions of the build do.                                           *)
(***************************************************************************)
EXTENDS Integers, Sequences, FiniteSets, TLC

(* ------------------------------ bounds -------------------------------- *)
\* width of `long` in the model (64 in the build)
LongBits == 6
\* largest nthreads argument tried
MaxThreads == 2
\* number of logical CPU ids of the host (CPU_SETSIZE in the build)
NumCpus == 2
\* largest end - begin of the small ranges
MaxSpan == 3
\* largest chunk argument of the small ranges
MaxChunk == 2
\* the per-index call counter saturates here: it tells 0, 1 and "more than once"
MaxCalls == 2
\* the log of fetch-and-add results keeps this many entries
MaxLog == 8
\* calls of parallel_for made one after the other in the same process
MaxInvocations == 2

(* -------------------------- program constants ------------------------- *)
PARALLEL_OPT_PIN_CORE == 1
PARALLEL_OPT_REALTIME == 2
\* return statuses of parallel_for
RET_OK == 0
RET_INVALID == -1
RET_NOMEM == -2
RET_SPAWN == -3

RECURSIVE Pow2(_)
Pow2(n) == IF n = 0 THEN 1 ELSE 2 * Pow2(n - 1)

MaxLong == Pow2(LongBits - 1) - 1
MinLong == -Pow2(LongBits - 1)
Long == MinLong..MaxLong

\* two's complement wrap of a sum of longs
Wrap(x) == ((x - MinLong) % Pow2(LongBits)) + MinLong

\* options & flag, for a single-bit flag
HasFlag(options, flag) == (options \div flag) % 2 = 1

\* lock xaddq: the value stored and the value returned
atomic_fetch_add_long(old, inc) == [ret |-> old, mem |-> Wrap(old + inc)]

\* cmp b, r ; cmovg b, r
branchless_min_long(a, b) == IF a > b THEN b ELSE a

\* the cpus of the mask in ascending order (the loop of lines 220-225)
RECURSIVE CoreList(_, _)
CoreList(mask, cpu) ==
    IF cpu >= NumCpus THEN <<>>
    ELSE IF cpu \in mask THEN <<cpu>> \o CoreList(mask, cpu + 1)
    ELSE CoreList(mask, cpu + 1)

VARIABLES
    args,          \* the arguments of the call
    env,           \* what the host answers: sysconf, sched_getaffinity, the mask
    pc,            \* where the dispatcher is
    ret,           \* <<status>> once parallel_for has returned, <<>> before
    chunk,         \* the local chunk, normalised
    next,          \* the shared cursor
    core_ids,      \* the eligible list built for pinning
    core_count,
    active_cores,
    nthreads,      \* the local nthreads, resolved
    t,             \* loop variable of the spawn and join loops
    j,             \* loop variable of the drain loop
    ctxs,          \* worker descriptors: assigned_core
    wpc,           \* where each worker is
    joined,        \* the workers pthread_join has returned for
    join_error,    \* whether some pthread_join returned an error number
    w_start, w_stop, w_i,      \* locals of each worker
    thr,           \* each thread's cpu affinity and scheduling policy, and
                   \* whether its pthread_setaffinity_np failed
    warned,        \* the static flag of warn_realtime_failure
    log,           \* messages written to stderr, by kind
    creates,       \* number of pthread_create calls made
    calls,         \* per index, how often body was called (saturating)
    claim_log,     \* the values fetch-and-add returned, in order (first MaxLog)
    claimers,      \* the workers that claimed a chunk with start < end
    invocation,    \* which call of parallel_for in this process this is, from 1
    warned_at_entry \* the static flag as this call found it

vars == <<args, env, pc, ret, chunk, next, core_ids, core_count, active_cores,
          nthreads, t, j, ctxs, wpc, joined, join_error, w_start, w_stop, w_i, thr,
          warned, log, creates, calls, claim_log, claimers, invocation,
          warned_at_entry>>

worker_locals == <<w_start, w_stop, w_i>>

(* ------------------------------ inputs -------------------------------- *)
Masks == SUBSET (0..(NumCpus - 1)) \ {{}}

NominalEnv == [nprocs |-> NumCpus, getaffinity_ok |-> TRUE, mask |-> 0..(NumCpus - 1)]

\* sysconf fails or counts every cpu; the mask is read, or it is not (and then
\* it plays no part, so one mask stands for all)
Envs ==
    [nprocs : {-1, NumCpus}, getaffinity_ok : {TRUE}, mask : Masks]
        \cup [nprocs : {-1, NumCpus}, getaffinity_ok : {FALSE},
              mask : {0..(NumCpus - 1)}]

Call(b, e, c, n, o, f) ==
    [begin |-> b, end |-> e, chunk |-> c, nthreads |-> n, options |-> o, body |-> f]

\* small ranges, valid and invalid, every chunk, no options
RangeCalls ==
    { Call(b, e, c, n, 0, f) :
        b \in {0, 1}, e \in 0..(1 + MaxSpan), c \in -1..MaxChunk,
        n \in {1, MaxThreads}, f \in {"fn", "NULL"} }

\* ranges that end at the largest long: on one thread, and the shortest of
\* them on two
EdgeCalls ==
    { Call(b, MaxLong, c, 1, 0, "fn") : b \in (MaxLong - 2)..(MaxLong - 1), c \in 0..2 }
        \cup { Call(MaxLong - 1, MaxLong, c, 2, 0, "fn") : c \in 0..1 }

\* the smallest chunk that three fetch-and-adds carry once round the longs
WrapChunk == (Pow2(LongBits) + 2) \div 3

\* three indices from the smallest long on, in one chunk of that size, on four
\* threads: the fourth fetch-and-add returns a value of the range again
WrapCalls == { Call(MinLong, MinLong + 3, WrapChunk, 4, 0, "fn") }

\* the scenario of the specification: 10 indices in chunks of 3 on 2 threads
ScenarioCalls == { Call(0, 10, 3, 2, 0, "fn") }

\* the default and the largest thread count, with and without pinning, one index
PinCalls ==
    { Call(0, 1, 1, n, o, "fn") :
        n \in {-1, 0, MaxThreads}, o \in {0, PARALLEL_OPT_PIN_CORE} }

\* realtime elevation: alone on one and on several threads, and with pinning
RealtimeCalls ==
    { Call(0, 1, 1, n, PARALLEL_OPT_REALTIME, "fn") : n \in {1, MaxThreads} }
        \cup { Call(0, 1, 1, 1, PARALLEL_OPT_PIN_CORE + PARALLEL_OPT_REALTIME, "fn") }

Cases ==
    ((RangeCalls \cup EdgeCalls \cup WrapCalls \cup ScenarioCalls \cup RealtimeCalls)
        \X {NominalEnv})
        \cup (PinCalls \X Envs)

Init ==
    /\ \E c \in Cases : args = c[1] /\ env = c[2]
    /\ pc = "entry"
    /\ ret = <<>>
    /\ chunk = 0
    /\ next = 0
    /\ core_ids = <<>>
    /\ core_count = 0
    /\ active_cores = 0
    /\ nthreads = 0
    /\ t = 0
    /\ j = 0
    /\ ctxs = <<>>
    /\ wpc = <<>>
    /\ joined = {}
    /\ join_error = FALSE
    /\ w_start = <<>>
    /\ w_stop = <<>>
    /\ w_i = <<>>
    /\ thr = <<>>
    /\ warned = 0
    /\ log = [pin |-> 0, realtime |-> 0, create |-> 0]
    /\ creates = 0
    /\ calls = [i \in Long |-> 0]
    /\ claim_log = <<>>
    /\ claimers = {}
    /\ invocation = 1
    /\ warned_at_entry = 0

(* ----------------------------- dispatcher ----------------------------- *)
Workers == 0..(nthreads - 1)

\* line 196 with end < begin in place of end <= begin
InvalidArgsNoEmpty(a) == a.body = "NULL" \/ a.end < a.begin

\* line 196: the arguments parallel_for rejects
InvalidArgs(a) == a.body = "NULL" \/ a.end <= a.begin

\* line 197 with chunk < 0 in place of chunk <= 0
NormalChunkNegOnly(c) == IF c < 0 THEN 1 ELSE c

\* line 197
NormalChunk(c) == IF c <= 0 THEN 1 ELSE c

\* lines 196-200: validation, chunk normalisation, the cursor starts at begin
Entry ==
    /\ pc = "entry"
    /\ IF InvalidArgs(args)
       THEN /\ ret' = <<RET_INVALID>>
            /\ pc' = "returned"
            /\ UNCHANGED <<chunk, next>>
       ELSE /\ chunk' = NormalChunk(args.chunk)
            /\ next' = args.begin
            /\ pc' = "resolve"
            /\ ret' = ret
    /\ UNCHANGED <<args, env, invocation, warned_at_entry, core_ids, core_count, active_cores, nthreads, t, j,
                   ctxs, wpc, joined, join_error, worker_locals, thr, warned, log, creates,
                   calls, claim_log, claimers>>

\* lines 202-203
SysNcores(nprocs) == IF nprocs < 1 THEN 1 ELSE nprocs

\* lines 208-233: the list is built only when pinning is asked for, the mask
\* is read, it is not empty and the list is allocated
ResolveCoreIds(options, e, malloc_ok) ==
    IF /\ HasFlag(options, PARALLEL_OPT_PIN_CORE)
       /\ e.getaffinity_ok
       /\ Cardinality(e.mask) > 0
       /\ malloc_ok
    THEN CoreList(e.mask, 0)
    ELSE <<>>

\* lines 235-236
ActiveCores(count, sys_ncores) ==
    LET a == IF count > 0 THEN count ELSE sys_ncores
    IN  IF a < 1 THEN 1 ELSE a

\* line 237 with nthreads < 0 in place of nthreads <= 0
EffectiveThreadsNegOnly(n, options, active) ==
    LET m == IF n < 0 THEN active ELSE n
    IN  IF HasFlag(options, PARALLEL_OPT_PIN_CORE) /\ m > active THEN active ELSE m

\* lines 237-241
EffectiveThreads(n, options, active) ==
    LET m == IF n <= 0 THEN active ELSE n
    IN  IF HasFlag(options, PARALLEL_OPT_PIN_CORE) /\ m > active THEN active ELSE m

\* lines 202-241: the core list and the thread count
Resolve ==
    /\ pc = "resolve"
    /\ \E malloc_ok \in BOOLEAN :
         LET ids == ResolveCoreIds(args.options, env, malloc_ok)
             active == ActiveCores(Len(ids), SysNcores(env.nprocs))
         IN  /\ core_ids' = ids
             /\ core_count' = Len(ids)
             /\ active_cores' = active
             /\ nthreads' = EffectiveThreads(args.nthreads, args.options, active)
    /\ pc' = "alloc"
    /\ UNCHANGED <<args, env, invocation, warned_at_entry, ret, chunk, next, t, j, ctxs, wpc, joined, join_error,
                   worker_locals, thr, warned, log, creates, calls, claim_log,
                   claimers>>

\* line 245: the test of the two arrays
AllocFailed(ths_ok, ctxs_ok) == ~ths_ok \/ ~ctxs_ok

\* line 245 returning the status of line 296
AllocFailureAsSpawn == RET_SPAWN

\* line 245: the status of an allocation failure
AllocFailureStatus == RET_NOMEM

\* lines 243-245: the two calloc'ed arrays, or -2
Alloc ==
    /\ pc = "alloc"
    /\ \E ths_ok \in BOOLEAN, ctxs_ok \in BOOLEAN :
         IF ~AllocFailed(ths_ok, ctxs_ok)
         THEN /\ ctxs' = [w \in Workers |-> [thr_idx |-> 0, assigned_core |-> 0]]
              /\ wpc' = [w \in Workers |-> "none"]
              /\ w_start' = [w \in Workers |-> 0]
              /\ w_stop' = [w \in Workers |-> 0]
              /\ w_i' = [w \in Workers |-> 0]
              /\ thr' = [w \in Workers |->
                           [cpu |-> -1, policy |-> "other", pin_failed |-> FALSE]]
              /\ t' = 0
              /\ pc' = "spawn"
              /\ ret' = ret
         ELSE /\ ret' = <<AllocFailureStatus>>
              /\ pc' = "returned"
              /\ UNCHANGED <<ctxs, wpc, worker_locals, thr, t>>
    /\ UNCHANGED <<args, env, invocation, warned_at_entry, chunk, next, core_ids, core_count, active_cores,
                   nthreads, j, joined, join_error, warned, log, creates, calls, claim_log,
                   claimers>>

\* lines 252-255 without the lookup in core_ids
ChosenCoreByOrdinal(options, w, ids, count, active) ==
    IF HasFlag(options, PARALLEL_OPT_PIN_CORE) /\ active > 0 THEN w % active ELSE -1

\* lines 249-256
ChosenCore(options, w, ids, count, active) ==
    IF HasFlag(options, PARALLEL_OPT_PIN_CORE)
    THEN IF count > 0 THEN ids[(w % count) + 1]
         ELSE IF active > 0 THEN w % active
         ELSE -1
    ELSE -1

\* lines 247-298, one iteration: the descriptor, the attributes, pthread_create;
\* when it fails, the message and the start of the drain loop
Spawn ==
    /\ pc = "spawn"
    /\ t < nthreads
    /\ LET chosen_core == ChosenCore(args.options, t, core_ids, core_count, active_cores)
       IN  /\ ctxs' = [ctxs EXCEPT ![t] = [thr_idx |-> t, assigned_core |-> chosen_core]]
           /\ creates' = creates + 1
           /\ \E attr_ok \in BOOLEAN, create_ok \in BOOLEAN :
                IF create_ok
                THEN /\ wpc' = [wpc EXCEPT ![t] = "enter"]
                     /\ thr' = [thr EXCEPT ![t].cpu =
                                  IF chosen_core >= 0 /\ attr_ok THEN chosen_core ELSE -1]
                     /\ t' = IF t + 1 < nthreads THEN t + 1 ELSE 0
                     /\ pc' = IF t + 1 < nthreads THEN "spawn" ELSE "join"
                     /\ UNCHANGED <<j, log>>
                ELSE /\ log' = [log EXCEPT !.create = @ + 1]
                     /\ j' = 0
                     /\ pc' = "drain"
                     /\ UNCHANGED <<wpc, thr, t>>
    /\ UNCHANGED <<args, env, invocation, warned_at_entry, ret, chunk, next, core_ids, core_count, active_cores,
                   nthreads, joined, join_error, worker_locals, warned, calls, claim_log,
                   claimers>>

\* a join that does not wait for the worker
JoinableAtOnce(w) == wpc[w] # "none"

\* pthread_join returns once the thread has returned from worker_main
Joinable(w) == wpc[w] = "exited"

\* line 294 with j < t - 1
DrainBoundShort(n) == n - 1

\* line 294: the drain loop joins the workers below t
DrainBound(n) == n

\* line 294, one iteration: join an already spawned worker; the value
\* pthread_join returns is not looked at
Drain ==
    /\ pc = "drain"
    /\ j < DrainBound(t)
    /\ Joinable(j)
    /\ joined' = joined \cup {j}
    /\ \E rc_ok \in BOOLEAN : join_error' = (join_error \/ ~rc_ok)
    /\ j' = j + 1
    /\ UNCHANGED <<args, env, invocation, warned_at_entry, pc, ret, chunk, next, core_ids, core_count,
                   active_cores, nthreads, t, ctxs, wpc, worker_locals, thr, warned,
                   log, creates, calls, claim_log, claimers>>

\* lines 295-296: the drain loop is over
SpawnFailed ==
    /\ pc = "drain"
    /\ j >= DrainBound(t)
    /\ ret' = <<RET_SPAWN>>
    /\ pc' = "returned"
    /\ UNCHANGED <<args, env, invocation, warned_at_entry, chunk, next, core_ids, core_count, active_cores,
                   nthreads, t, j, ctxs, wpc, joined, join_error, worker_locals, thr, warned,
                   log, creates, calls, claim_log, claimers>>

\* line 299, one iteration; the value pthread_join returns is not looked at
Join ==
    /\ pc = "join"
    /\ t < nthreads
    /\ Joinable(t)
    /\ joined' = joined \cup {t}
    /\ \E rc_ok \in BOOLEAN : join_error' = (join_error \/ ~rc_ok)
    /\ t' = t + 1
    /\ UNCHANGED <<args, env, invocation, warned_at_entry, pc, ret, chunk, next, core_ids, core_count,
                   active_cores, nthreads, j, ctxs, wpc, worker_locals, thr, warned,
                   log, creates, calls, claim_log, claimers>>

\* line 301 with the joins' results looked at
FinishStatusChecked(some_join_failed) == IF some_join_failed THEN RET_SPAWN ELSE RET_OK

\* line 301: the status after the join loop, whatever the joins returned
FinishStatus(some_join_failed) == RET_OK

\* lines 300-301
Finish ==
    /\ pc = "join"
    /\ t >= nthreads
    /\ ret' = <<FinishStatus(join_error)>>
    /\ pc' = "returned"
    /\ UNCHANGED <<args, env, invocation, warned_at_entry, chunk, next, core_ids, core_count, active_cores,
                   nthreads, t, j, ctxs, wpc, joined, join_error, worker_locals, thr, warned,
                   log, creates, calls, claim_log, claimers>>

(* ------------------------------ workers ------------------------------- *)
\* line 45 guarded by a flag that lets only the first message through
PinPerrorOnce(n) == IF n = 0 THEN 1 ELSE n

\* line 45: perror writes one more message, whatever was written before
PinPerror(n) == n + 1

\* pin_to_core ending the worker when pthread_setaffinity_np fails
AfterPinAbort(rc_ok) == IF rc_ok THEN "elevate" ELSE "exited"

\* lines 42-47 and 167: pin_to_core returns to worker_main whatever
\* pthread_setaffinity_np returned
AfterPin(rc_ok) == "elevate"

\* lines 162-165: pin_to_core when pinning is asked for and a core is assigned;
\* a failure of pthread_setaffinity_np writes a message and nothing else
Pin(w) ==
    /\ wpc[w] = "enter"
    /\ IF HasFlag(args.options, PARALLEL_OPT_PIN_CORE) /\ ctxs[w].assigned_core >= 0
       THEN \E rc_ok \in BOOLEAN :
              /\ IF rc_ok
                 THEN /\ thr' = [thr EXCEPT ![w].cpu = ctxs[w].assigned_core]
                      /\ log' = log
                 ELSE /\ log' = [log EXCEPT !.pin = PinPerror(@)]
                      /\ thr' = [thr EXCEPT ![w].pin_failed = TRUE]
              /\ wpc' = [wpc EXCEPT ![w] = AfterPin(rc_ok)]
       ELSE /\ UNCHANGED <<thr, log>>
            /\ wpc' = [wpc EXCEPT ![w] = "elevate"]
    /\ UNCHANGED <<args, env, invocation, warned_at_entry, pc, ret, chunk, next, core_ids, core_count,
                   active_cores, nthreads, t, j, ctxs, joined, join_error, worker_locals, warned,
                   creates, calls, claim_log, claimers>>

\* lines 167-170 and 63-83: try_enable_realtime; sched_get_priority_max or
\* pthread_setschedparam may fail, and then warn_realtime_failure is entered
Elevate(w) ==
    /\ wpc[w] = "elevate"
    /\ IF HasFlag(args.options, PARALLEL_OPT_REALTIME)
       THEN \E outcome \in {"ok", "no_max_prio", "setschedparam_failed"} :
              IF outcome = "ok"
              THEN /\ thr' = [thr EXCEPT ![w].policy = "fifo"]
                   /\ wpc' = [wpc EXCEPT ![w] = "claim"]
              ELSE /\ thr' = thr
                   /\ wpc' = [wpc EXCEPT ![w] = "warn_read"]
       ELSE /\ thr' = thr
            /\ wpc' = [wpc EXCEPT ![w] = "claim"]
    /\ UNCHANGED <<args, env, invocation, warned_at_entry, pc, ret, chunk, next, core_ids, core_count,
                   active_cores, nthreads, t, j, ctxs, joined, join_error, worker_locals, warned,
                   log, creates, calls, claim_log, claimers>>

\* line 53, left operand: the plain read of the static flag
WarnRead(w) ==
    /\ wpc[w] = "warn_read"
    /\ wpc' = [wpc EXCEPT ![w] = IF warned = 0 THEN "warn_cas" ELSE "claim"]
    /\ UNCHANGED <<args, env, invocation, warned_at_entry, pc, ret, chunk, next, core_ids, core_count,
                   active_cores, nthreads, t, j, ctxs, joined, join_error, worker_locals, thr,
                   warned, log, creates, calls, claim_log, claimers>>

\* try_enable_realtime called again after the warning
AfterWarningRetry == "elevate"

\* lines 70-71, 77-78 and 172: after the warning try_enable_realtime returns
\* and worker_main goes on to its loop
AfterWarning == "claim"

\* line 53 with a plain store in place of the compare-and-swap
CasAlwaysWins(flag) == TRUE

\* line 53, right operand: __sync_bool_compare_and_swap(&warned, 0, 1) succeeds
\* when the flag is still 0
CasWins(flag) == flag = 0

\* lines 53-60: the compare-and-swap, and the message of the worker that wins it
WarnCas(w) ==
    /\ wpc[w] = "warn_cas"
    /\ IF CasWins(warned)
       THEN /\ warned' = 1
            /\ log' = [log EXCEPT !.realtime = @ + 1]
       ELSE UNCHANGED <<warned, log>>
    /\ wpc' = [wpc EXCEPT ![w] = AfterWarning]
    /\ UNCHANGED <<args, env, invocation, warned_at_entry, pc, ret, chunk, next, core_ids, core_count,
                   active_cores, nthreads, t, j, ctxs, joined, join_error, worker_locals, thr,
                   creates, calls, claim_log, claimers>>

\* line 182 without the minimum
ChunkStopNoMin(start, c, e) == Wrap(start + c)

\* line 182: stop = min(start + chunk, end), the sum wrapping
ChunkStop(start, c, e) == branchless_min_long(Wrap(start + c), e)

\* line 181: the claim that ends the loop
NoWorkLeft(start, e) == start >= e

Logged(lg, v) == IF Len(lg) < MaxLog THEN Append(lg, v) ELSE lg

\* lines 180-183 and 150: one fetch-and-add; the loop ends, or the chunk is
\* entered, or it is empty and the loop goes round
Claim(w) ==
    /\ wpc[w] = "claim"
    /\ LET fa == atomic_fetch_add_long(next, chunk)
           start == fa.ret
           stop == ChunkStop(start, chunk, args.end)
       IN  /\ next' = fa.mem
           /\ claim_log' = Logged(claim_log, start)
           /\ w_start' = [w_start EXCEPT ![w] = start]
           /\ IF NoWorkLeft(start, args.end)
              THEN /\ wpc' = [wpc EXCEPT ![w] = "exited"]
                   /\ UNCHANGED <<w_stop, w_i, claimers>>
              ELSE /\ w_stop' = [w_stop EXCEPT ![w] = stop]
                   /\ claimers' = claimers \cup {w}
                   /\ IF start >= stop
                      THEN UNCHANGED <<wpc, w_i>>
                      ELSE /\ wpc' = [wpc EXCEPT ![w] = "body"]
                           /\ w_i' = [w_i EXCEPT ![w] = start]
    /\ UNCHANGED <<args, env, invocation, warned_at_entry, pc, ret, chunk, core_ids, core_count, active_cores,
                   nthreads, t, j, ctxs, joined, join_error, thr, warned, log, creates, calls>>

Counted(n) == IF n < MaxCalls THEN n + 1 ELSE n

\* line 151, one iteration: body(i, userdata), ++i, and the test i < stop
Body(w) ==
    /\ wpc[w] = "body"
    /\ calls' = [calls EXCEPT ![w_i[w]] = Counted(@)]
    /\ w_i' = [w_i EXCEPT ![w] = Wrap(@ + 1)]
    /\ wpc' = [wpc EXCEPT ![w] = IF Wrap(w_i[w] + 1) < w_stop[w] THEN "body" ELSE "claim"]
    /\ UNCHANGED <<args, env, invocation, warned_at_entry, pc, ret, chunk, next, core_ids, core_count,
                   active_cores, nthreads, t, j, ctxs, joined, join_error, w_start, w_stop, thr,
                   warned, log, creates, claim_log, claimers>>

\* the caller calls parallel_for again after it has returned: every local of
\* the call starts afresh, the static flag of line 52 keeps its value. Tried
\* with the calls that ask for realtime, the only ones that read the flag.
Reinvoke ==
    /\ pc = "returned"
    /\ invocation < MaxInvocations
    /\ args \in RealtimeCalls
    /\ \E a \in RealtimeCalls : args' = a
    /\ invocation' = invocation + 1
    /\ warned_at_entry' = warned
    /\ pc' = "entry"
    /\ ret' = <<>>
    /\ chunk' = 0
    /\ next' = 0
    /\ core_ids' = <<>>
    /\ core_count' = 0
    /\ active_cores' = 0
    /\ nthreads' = 0
    /\ t' = 0
    /\ j' = 0
    /\ ctxs' = <<>>
    /\ wpc' = <<>>
    /\ joined' = {}
    /\ join_error' = FALSE
    /\ w_start' = <<>>
    /\ w_stop' = <<>>
    /\ w_i' = <<>>
    /\ thr' = <<>>
    /\ log' = [pin |-> 0, realtime |-> 0, create |-> 0]
    /\ creates' = 0
    /\ calls' = [i \in Long |-> 0]
    /\ claim_log' = <<>>
    /\ claimers' = {}
    /\ UNCHANGED <<env, warned>>

Next ==
    \/ Entry
    \/ Resolve
    \/ Alloc
    \/ Spawn
    \/ Drain
    \/ SpawnFailed
    \/ Join
    \/ Finish
    \/ Reinvoke
    \/ \E w \in DOMAIN wpc : Pin(w)
    \/ \E w \in DOMAIN wpc : Elevate(w)
    \/ \E w \in DOMAIN wpc : WarnRead(w)
    \/ \E w \in DOMAIN wpc : WarnCas(w)
    \/ \E w \in DOMAIN wpc : Claim(w)
    \/ \E w \in DOMAIN wpc : Body(w)

Spec == Init /\ [][Next]_vars

\* the steps of parallel_for itself, and the steps of worker w
Dispatch == Entry \/ Resolve \/ Alloc \/ Spawn \/ Drain \/ SpawnFailed \/ Join \/ Finish

Worker(w) ==
    /\ w \in DOMAIN wpc
    /\ Pin(w) \/ Elevate(w) \/ WarnRead(w) \/ WarnCas(w) \/ Claim(w) \/ Body(w)

\* thread ordinals, enough of them for every call of the model
WorkerIds == 0..(MaxThreads + NumCpus)

\* every thread that can take a step is scheduled in the end, and every call
\* of body returns; nothing obliges the caller to call again
LiveSpec ==
    /\ Spec
    /\ WF_vars(Dispatch)
    /\ \A w \in WorkerIds : WF_vars(Worker(w))

(* ------------------------------ claims -------------------------------- *)
Returned == pc = "returned"

\* the indices of [begin, end)
Range == { i \in Long : args.begin <= i /\ i < args.end }

\* body was called once for each index of the range and for no other index
ExactlyOnce ==
    \A i \in Long : calls[i] = IF args.begin <= i /\ i < args.end THEN 1 ELSE 0

NeverCalled == \A i \in Long : calls[i] = 0

\* the workers pthread_create has started
Spawned == { w \in DOMAIN wpc : wpc[w] # "none" }

\* no value the cursor hands out, and no start + chunk, passes the largest long
CursorFits == args.end - 1 + chunk * nthreads <= MaxLong

\* C1: when parallel_for returns 0, body has been called exactly once for each
\* index of [begin, end) and for no other, for every begin < end, every
\* chunk >= 1 and every thread count.
C1_ExactlyOnceOnSuccess == (ret = <<0>> /\ args.chunk >= 1) => ExactlyOnce

\* The same for the calls whose cursor cannot wrap.
ExactlyOnceWhenCursorFits == (ret = <<0>> /\ CursorFits) => ExactlyOnce

\* C2: a call with end = begin, end < begin or a null body returns -1 at once:
\* no pthread_create, no fetch-and-add on the cursor, no call of body.
C2_InvalidCallRejected ==
    (args.body = "NULL" \/ args.end = args.begin \/ args.end < args.begin) =>
        /\ pc \in {"entry", "returned"}
        /\ Returned => ret = <<-1>>
        /\ creates = 0
        /\ Spawned = {}
        /\ claim_log = <<>>
        /\ next = 0
        /\ NeverCalled

C2_Witness ==
    /\ Returned
    /\ ret = <<-1>>
    /\ args.body = "fn"
    /\ args.end = args.begin

\* C3: when pthread_create fails after k workers were started, parallel_for
\* returns -3 only after exactly those k workers have run to their end and
\* been joined; the failing call is the last pthread_create.
C3_SpawnFailureDrains ==
    LET k == Cardinality(Spawned)
    IN  /\ pc = "drain" => creates = k + 1
        /\ ret = <<-3>> =>
             /\ Spawned = 0..(k - 1)
             /\ k < nthreads
             /\ \A w \in Spawned : wpc[w] = "exited"
             /\ joined = Spawned
             /\ creates = k + 1
             /\ log.create = 1

C3_Witness ==
    /\ ret = <<-3>>
    /\ joined = {0}
    /\ nthreads > 1
    /\ calls[args.begin] = 1

\* C4: when parallel_for has returned, every worker it started has left
\* worker_main and been joined, so no fetch-and-add and no call of body can
\* follow the return.
C4_AllJoinedBeforeReturn ==
    Returned =>
        /\ \A w \in Spawned : wpc[w] = "exited" /\ w \in joined
        /\ ~ENABLED (\E w \in DOMAIN wpc : Claim(w) \/ Body(w))

C4_Witness ==
    /\ Returned
    /\ ret = <<0>>
    /\ Cardinality(Spawned) >= 2
    /\ claimers = Spawned

\* C5: the status is 0, -1, -2 or -3; -1 exactly for invalid arguments, -2
\* exactly when an array could not be allocated, -3 exactly when pthread_create
\* failed; with -2 no worker was started and body was never called.
C5_StatusKinds ==
    Returned =>
        LET invalid == args.body = "NULL" \/ args.end <= args.begin
        IN  /\ ret \in {<<0>>, <<-1>>, <<-2>>, <<-3>>}
            /\ (ret = <<-1>>) <=> invalid
            /\ (ret = <<-2>>) <=> (~invalid /\ DOMAIN wpc = {})
            /\ (ret = <<-3>>) <=> (log.create > 0)
            /\ ret = <<-2>> => (creates = 0 /\ NeverCalled /\ claim_log = <<>>)

C5_Witness ==
    /\ Returned
    /\ ret = <<-2>>
    /\ creates = 0

\* C6: parallel_for returns 0 only if no pthread_join reported an error.
C6_SuccessOnlyIfJoinsClean == ret = <<0>> => ~join_error

\* C6, amended: after the join loop parallel_for returns 0 whatever the joins
\* returned: the status is 0 exactly when every pthread_create succeeded and
\* every worker was joined.
C6_SuccessAfterAllJoins ==
    Returned =>
        ((ret = <<0>>) <=>
            (DOMAIN wpc # {} /\ log.create = 0 /\ joined = DOMAIN wpc
               /\ \A w \in DOMAIN wpc : wpc[w] = "exited"))

C6_Witness ==
    /\ ret = <<0>>
    /\ join_error

\* C7: a call with chunk <= 0 does what the call with chunk = 1 does: past the
\* entry the chunk is 1, every claim with start < end covers the one index
\* start, and on success (the cursor not wrapping) body has been called once
\* for each index of [begin, end).
C7_ChunkNormalised ==
    (args.chunk <= 1 /\ args.body = "fn" /\ args.begin < args.end /\ pc # "entry") =>
        /\ chunk = 1
        /\ \A w \in DOMAIN wpc :
             wpc[w] = "body" => (w_i[w] = w_start[w] /\ w_stop[w] = w_start[w] + 1)
        /\ (ret = <<0>> /\ CursorFits) => ExactlyOnce

C7_Witness ==
    /\ args.chunk <= 0
    /\ ret = <<0>>
    /\ args.end - args.begin >= 2
    /\ Cardinality(claimers) = 2
    /\ ExactlyOnce

\* what sysconf gives, at least 1
OnlineCount == IF env.nprocs < 1 THEN 1 ELSE env.nprocs

\* the eligible cores as the specification defines them: the cpus of the
\* affinity mask, and the online processors only when the mask cannot be read
EligibleList ==
    IF env.getaffinity_ok THEN CoreList(env.mask, 0)
    ELSE [i \in 1..OnlineCount |-> i - 1]

\* the list the code pins from: the cpus of the mask when pinning is asked
\* for, the mask was read and the list allocated; else the ids below the
\* online count
PinList ==
    IF HasFlag(args.options, PARALLEL_OPT_PIN_CORE) /\ env.getaffinity_ok /\ core_ids # <<>>
    THEN CoreList(env.mask, 0)
    ELSE [i \in 1..OnlineCount |-> i - 1]

Resolved == pc \notin {"entry", "resolve"} /\ ret # <<-1>>

\* C8: with nthreads <= 0 the number of workers is the number of eligible
\* cores, with or without pinning.
C8_DefaultIsEligibleCount ==
    (args.nthreads <= 0 /\ Resolved) =>
        /\ nthreads = Len(EligibleList)
        /\ ret = <<0>> => Cardinality(Spawned) = Len(EligibleList)

\* C8, amended: with nthreads <= 0 the number of workers is the number of cpus
\* of the affinity mask when pinning is asked for, the mask was read and the
\* core list allocated, and otherwise the online processor count (1 when
\* sysconf fails).
C8_DefaultThreadCount ==
    (args.nthreads <= 0 /\ Resolved) =>
        /\ nthreads = Len(PinList)
        /\ ret = <<0>> => Cardinality(Spawned) = Len(PinList)

C8_Witness ==
    /\ args.nthreads <= 0
    /\ HasFlag(args.options, PARALLEL_OPT_PIN_CORE)
    /\ ret = <<0>>
    /\ Cardinality(Spawned) = Cardinality(env.mask)
    /\ Cardinality(env.mask) # OnlineCount

\* the workers whose descriptor has been filled in
Described == { w \in DOMAIN ctxs : w < creates }

Scenario ==
    /\ args.begin = 0
    /\ args.end = 10
    /\ args.chunk = 3
    /\ args.nthreads = 2
    /\ args.options = 0
    /\ args.body = "fn"

\* the claims of the log that found work, and the size of the chunk of each
SuccessfulClaims == SelectSeq(claim_log, LAMBDA s : s < args.end)
ClaimSize(s) == (IF s + chunk < args.end THEN s + chunk ELSE args.end) - s

\* C10: begin=0, end=10, chunk=3, nthreads=2, the arrays allocated and both
\* threads created: four claims find work, of sizes 3, 3, 3, 1 in this order,
\* exactly 2 workers make them, every index is called once and the status is 0.
C10_ScenarioTwoWorkers ==
    (Scenario /\ Returned /\ ret # <<-2>> /\ log.create = 0) =>
        /\ ret = <<0>>
        /\ SuccessfulClaims = <<0, 3, 6, 9>>
        /\ [n \in 1..4 |-> ClaimSize(SuccessfulClaims[n])] = <<3, 3, 3, 1>>
        /\ Cardinality(claimers) = 2
        /\ ExactlyOnce

\* C10, amended: the four claims are made by 1 or 2 workers.
C10_ScenarioAtMostTwoWorkers ==
    (Scenario /\ Returned /\ ret # <<-2>> /\ log.create = 0) =>
        /\ ret = <<0>>
        /\ Len(claim_log) = 6
        /\ SuccessfulClaims = <<0, 3, 6, 9>>
        /\ [n \in 1..4 |-> ClaimSize(SuccessfulClaims[n])] = <<3, 3, 3, 1>>
        /\ Cardinality(claimers) \in {1, 2}
        /\ claimers \subseteq {0, 1}
        /\ ExactlyOnce

C10_Witness ==
    /\ Scenario
    /\ ret = <<0>>
    /\ claimers = {0, 1}
    /\ SuccessfulClaims = <<0, 3, 6, 9>>

\* the workers in which try_enable_realtime was called and did not succeed
RealtimeFailed ==
    { w \in DOMAIN wpc :
        /\ HasFlag(args.options, PARALLEL_OPT_REALTIME)
        /\ wpc[w] \in {"warn_read", "warn_cas", "claim", "body", "exited"}
        /\ thr[w].policy # "fifo" }

\* C11: a pthread_setaffinity_np or a realtime elevation that fails in some
\* workers is no failure of the call: the status is 0 unless a pthread_create
\* failed, as in the run without such failures; no started worker leaves
\* before its first fetch-and-add; and on a return of 0 body has been called
\* once for each index of [begin, end), as in the run without such failures.
C11_DegradationNotFatal ==
    (log.pin > 0 \/ RealtimeFailed # {}) =>
        /\ \A w \in Spawned : wpc[w] = "exited" => w_start[w] >= args.end
        /\ Returned =>
              /\ ret = IF log.create > 0 THEN <<-3>> ELSE <<0>>
              /\ Len(claim_log) >= Cardinality(Spawned)
              /\ ret = <<0>> => ExactlyOnce

C11_Witness ==
    /\ ret = <<0>>
    /\ log.pin = 1
    /\ RealtimeFailed = {0}
    /\ thr[0].cpu = -1
    /\ ExactlyOnce

\* the minimum of two integers, unbounded
IntMin(a, b) == IF a < b THEN a ELSE b

\* the cursor is in use: the call was valid and line 199 has run
CursorLive == pc # "entry" /\ ret # <<-1>>

\* the n-th range handed out, as the specification computes it
TileStart(n) == args.begin + (n - 1) * chunk
TileStop(n) == IntMin(TileStart(n) + chunk, args.end)

\* C12: the values fetch-and-add returns are, in claim order, begin,
\* begin+chunk, begin+2*chunk, ...: never decreasing, none returned twice, the
\* cursor being moved by chunk at each claim and by nothing else; the claims with
\* start < end are the first ceil((end-begin)/chunk) of them and each worker
\* in a chunk holds [start, min(start+chunk, end)), so that the chunks tile
\* [begin, end) without gap or overlap.
C12_CursorTiling ==
    CursorLive =>
        /\ \A n \in 1..Len(claim_log) : claim_log[n] = TileStart(n)
        /\ \A m, n \in 1..Len(claim_log) : m < n => claim_log[m] < claim_log[n]
        /\ Len(claim_log) < MaxLog => next = Wrap(TileStart(Len(claim_log) + 1))
        /\ \A n \in 1..Len(claim_log) :
             claim_log[n] < args.end => TileStart(n) < args.end
        /\ \A w \in DOMAIN wpc :
             wpc[w] = "body" =>
                \E n \in 1..Len(claim_log) :
                    /\ w_start[w] = TileStart(n)
                    /\ w_stop[w] = TileStop(n)
                    /\ w_start[w] < w_stop[w]
        /\ \A v, w \in DOMAIN wpc :
             (v # w /\ wpc[v] = "body" /\ wpc[w] = "body") =>
                (w_stop[v] <= w_start[w] \/ w_stop[w] <= w_start[v])

\* The same for the calls whose cursor cannot wrap.
CursorTilingWhenCursorFits == CursorFits => C12_CursorTiling

\* the workers that are past warn_realtime_failure, or never entered it
PastWarning == { w \in DOMAIN wpc : wpc[w] \in {"claim", "body", "exited"} }

\* C13: when the elevation fails in one or more workers of a call, the warning
\* is written exactly once during that call, in the first call of the process
\* as in a later one.
C13_WarnedOncePerInvocation ==
    (Returned /\ RealtimeFailed # {}) => log.realtime = 1

\* C13, amended: the warning is written once per process, not once per call:
\* exactly once in the first call in which an elevation fails, however many
\* workers fail and however their tests of the flag interleave, and never in
\* a call that finds the flag already set.
C13_WarnedOncePerProcess ==
    /\ warned \in {0, 1}
    /\ log.realtime <= 1
    /\ warned = 1 <=> (warned_at_entry = 1 \/ log.realtime = 1)
    /\ warned_at_entry = 1 => log.realtime = 0
    /\ RealtimeFailed = {} => log.realtime = 0
    /\ (RealtimeFailed # {} /\ RealtimeFailed \subseteq PastWarning
          /\ warned_at_entry = 0) => log.realtime = 1

C13_Witness ==
    /\ invocation = 2
    /\ Returned
    /\ RealtimeFailed = {0, 1}
    /\ warned_at_entry = 1
    /\ log.realtime = 0

\* the workers in which pthread_setaffinity_np failed
PinFailed == { w \in DOMAIN thr : thr[w].pin_failed }

\* C14: a call writes at most one message about a failed pinning, in however
\* many of its workers the pinning fails.
C14_PinFailureLoggedOnce == log.pin <= 1

\* C14, amended: a call writes one message for each worker in which the
\* pinning fails, so at most one per worker and as many as there are such
\* workers; pin_to_core is entered only with the pinning option.
C14_PinFailureLoggedPerWorker ==
    /\ log.pin = Cardinality(PinFailed)
    /\ PinFailed \subseteq Spawned
    /\ ~HasFlag(args.options, PARALLEL_OPT_PIN_CORE) => log.pin = 0

C14_Witness ==
    /\ Returned
    /\ ret = <<0>>
    /\ PinFailed = {0, 1}
    /\ log.pin = 2

\* the states of the specification: Created 1, past the pinning 2, inside the
\* elevation 3 and 4, Looping 5 (claiming or executing), Exited 6
StateRank(s) ==
    CASE s = "none" -> 0
      [] s = "enter" -> 1
      [] s = "elevate" -> 2
      [] s = "warn_read" -> 3
      [] s = "warn_cas" -> 4
      [] s \in {"claim", "body"} -> 5
      [] s = "exited" -> 6

\* C15: within a call a worker only moves forward through Created, pinning,
\* elevation, Looping, Exited; pin_to_core and try_enable_realtime act on a
\* thread once each, before the loop; the cursor moves and body is called
\* only through a worker that is in its loop; an exited worker changes
\* nothing any more.
C15_WorkerStateMachine ==
    [][ (pc # "entry" /\ pc' # "entry") =>
          /\ \A w \in DOMAIN wpc :
               /\ StateRank(wpc'[w]) >= StateRank(wpc[w])
               /\ thr'[w].pin_failed # thr[w].pin_failed =>
                     (wpc[w] = "enter" /\ wpc'[w] = "elevate")
               /\ thr'[w].cpu # thr[w].cpu =>
                     (wpc[w] \in {"none", "enter"} /\ wpc'[w] # wpc[w])
               /\ thr'[w].policy # thr[w].policy =>
                     (wpc[w] = "elevate" /\ wpc'[w] = "claim")
               /\ wpc[w] = "exited" =>
                     /\ wpc'[w] = "exited"
                     /\ <<w_start[w], w_stop[w], w_i[w], thr[w]>>'
                          = <<w_start[w], w_stop[w], w_i[w], thr[w]>>
          /\ next' # next =>
               \E w \in DOMAIN wpc :
                   wpc[w] = "claim" /\ wpc'[w] \in {"claim", "body", "exited"}
          /\ calls' # calls =>
               \E w \in DOMAIN wpc :
                   wpc[w] = "body" /\ wpc'[w] \in {"claim", "body"}
      ]_vars

C15_Witness ==
    /\ DOMAIN wpc = {0}
    /\ wpc[0] = "exited"
    /\ HasFlag(args.options, PARALLEL_OPT_PIN_CORE)
    /\ thr[0].cpu = ctxs[0].assigned_core
    /\ ~thr[0].pin_failed
    /\ thr[0].policy = "fifo"
    /\ calls[0] = 1

\* C16: a worker that has claimed start < end calls body for the indices of
\* [start, min(start+chunk, end)) one after the other in increasing order and
\* is through with all of them before its next fetch-and-add, and nobody else
\* calls body for one of them: while it is in the chunk the indices below its
\* position have been called once and those from its position on not at all,
\* and when it is back at the fetch-and-add all of them have been called once.
C16_ChunkRunByClaimer ==
    \A w \in DOMAIN wpc :
        LET stop == IntMin(w_start[w] + chunk, args.end)
        IN  /\ wpc[w] = "body" =>
                  /\ w_start[w] < args.end
                  /\ w_stop[w] = stop
                  /\ w_start[w] <= w_i[w]
                  /\ w_i[w] < stop
                  /\ \A i \in w_start[w]..(w_i[w] - 1) : calls[i] = 1
                  /\ \A i \in w_i[w]..(stop - 1) : calls[i] = 0
            /\ (wpc[w] = "claim" /\ w \in claimers) =>
                  \A i \in w_start[w]..(stop - 1) : calls[i] = 1

\* The same for the calls whose cursor cannot wrap.
ChunkRunByClaimerWhenCursorFits == CursorFits => C16_ChunkRunByClaimer

\* at the entry: no value a claim can return, and no start + chunk, passes the
\* largest long, whatever the thread count is resolved to
FitsAtEntry ==
    LET n == IF args.nthreads <= 0 THEN NumCpus ELSE args.nthreads
    IN  args.end - 1 + NormalChunk(args.chunk) * n <= MaxLong

\* C17: with fair scheduling and a body that returns, every call returns and
\* every worker it started reaches Exited.
C17_Terminates ==
    /\ (pc = "entry") ~> Returned
    /\ \A w \in WorkerIds :
         (w \in Spawned) ~> (pc = "entry" \/ (w \in DOMAIN wpc /\ wpc[w] = "exited"))

\* The same for the calls whose cursor cannot wrap.
TerminatesWhenCursorFits ==
    /\ (pc = "entry" /\ FitsAtEntry) ~> Returned
    /\ \A w \in WorkerIds :
         (w \in Spawned /\ FitsAtEntry) ~>
             (pc = "entry" \/ (w \in DOMAIN wpc /\ wpc[w] = "exited"))

\* C18: when parallel_for returns -3 after k workers were started, with
\* k >= 1 body has been called exactly once for each index of [begin, end),
\* with k = 0 it has not been called at all, and no index has been called
\* twice.
C18_SpawnFailureCompletesRange ==
    ret = <<-3>> =>
        /\ Spawned # {} => \A i \in Range : calls[i] = 1
        /\ Spawned = {} => NeverCalled
        /\ \A i \in Long : calls[i] <= 1

\* The same for the calls whose cursor cannot wrap.
SpawnFailureCompletesRangeWhenCursorFits ==
    CursorFits =>
        /\ C18_SpawnFailureCompletesRange
        /\ (Spawned # {} /\ ret = <<-3>>) => ExactlyOnce

\* the workers that have left worker_main
Exited == { w \in DOMAIN wpc : wpc[w] = "exited" }

\* the claims of the log that found no work
FailingClaims == SelectSeq(claim_log, LAMBDA s : s >= args.end)

\* ceil((end - begin) / chunk) chunks and one failing claim for each of n workers
CursorBound(n) ==
    args.begin + ((args.end - args.begin + chunk - 1) \div chunk + n) * chunk

\* not even the value the last fetch-and-add stores passes the largest long
CursorNeverWraps == args.end - 1 + chunk * (nthreads + 1) <= MaxLong

\* C19: a worker leaves on its first claim with start >= end, so there are as
\* many such claims as exited workers and a worker whose first claim fails
\* never calls body; the cursor is begin + j*chunk for some j >= 0, is never
\* above begin + (ceil((end-begin)/chunk) + W) * chunk for the W workers
\* started, and is that value once W >= 1 workers are started and all of them
\* have exited.
C19_OneFailingClaimEach ==
    CursorLive =>
        /\ \A w \in Exited : w_start[w] >= args.end
        /\ Len(claim_log) < MaxLog => Len(FailingClaims) = Cardinality(Exited)
        /\ \A w \in DOMAIN wpc : wpc[w] = "body" => w \in claimers
        /\ (Returned /\ claimers = {}) => NeverCalled
        /\ next >= args.begin
        /\ (next - args.begin) % chunk = 0
        /\ next <= CursorBound(Cardinality(Spawned))
        /\ (Spawned # {} /\ Exited = Spawned) =>
              next = CursorBound(Cardinality(Spawned))

\* The same for the calls whose cursor cannot wrap.
OneFailingClaimEachWhenCursorFits == CursorNeverWraps => C19_OneFailingClaimEach

\* C20: with w-bit longs that wrap, for every begin < end and chunk >= 1, also
\* with end close to the largest long: body is called only for indices of
\* [begin, end); a claim with start < end runs the non-empty range
\* [start, min(start+chunk, end)); and on a return of 0 no index of
\* [begin, end) has been left out.
C20_OverflowSafe ==
    CursorLive =>
        /\ \A i \in Long : calls[i] > 0 => (args.begin <= i /\ i < args.end)
        /\ \A w \in DOMAIN wpc :
             /\ wpc[w] = "body" =>
                   /\ w_start[w] < w_stop[w]
                   /\ w_stop[w] = IntMin(w_start[w] + chunk, args.end)
             /\ (wpc[w] = "claim" /\ w \in claimers) => calls[w_start[w]] > 0
        /\ ret = <<0>> => \A i \in Range : calls[i] > 0

\* The same for the calls whose cursor cannot wrap.
OverflowSafeWhenCursorFits == CursorFits => C20_OverflowSafe

====
